---- MODULE Spec2Model ----
(***************************************************************************)
(* A model of cv (src/cv.py): one monitor cycle (monitor_processes) and    *)
(* the loop around it (main), run against a /proc table that changes       *)
(* under the program's feet.                                               *)
(*                                                                         *)
(* Numbers the program holds as floats (rates, averages) are exact         *)
(* rationals <<n, d>> with d > 0 in lowest terms; "%.1f" output is the     *)
(* number of tenths it prints.  The file sizes and positions the model     *)
(* draws are such that no printed value sits on a rounding tie that        *)
(* binary floating point would resolve differently from exact arithmetic.  *)
(***************************************************************************)
EXTENDS Integers, Sequences, FiniteSets, TLC

(* ---------------------------------------------------------------- *)
(* Program constants                                                *)
(* ---------------------------------------------------------------- *)
MAX_PIDS == 32
MAX_FD_PER_PID == 512
THROUGHPUT_SAMPLE_SIZE == 3
\* max_pids=None / max_fd=None: no limit given
None == -1
\* moving_average(iterable, n=3)
DefaultWindow == 3
\* AppConfig.throughput_wait_secs
DefaultWaitSecs == 1

(* ---------------------------------------------------------------- *)
(* Bounds of the model                                              *)
(* ---------------------------------------------------------------- *)
\* changes of the /proc table or the clock during a run
MaxEvents == 1
\* the same, and the further turns of main's loop after the first, for the
\* looping runs of one process with one file
MaxLoopEvents == 2
MaxLoopRounds == 3
\* the integers and floats handed to Process() range over -MaxPidArg..MaxPidArg
MaxPidArg == 20
\* find_pids_by_binary_name is called with limits 0..MaxLimit on /proc tables
\* of up to MaxTablePids entries
MaxLimit == 3
MaxTablePids == 6
\* moving_average is called on sequences of up to MaxSeqLen numbers with
\* windows of 1..MaxWindow
MaxSeqLen == 4
MaxWindow == 4
\* processes in the /proc table when only the candidate list is built
MaxLivePids == 35
\* period of the executable pattern of that table
PatLen == 3

(* ---------------------------------------------------------------- *)
(* Python helpers                                                   *)
(* ---------------------------------------------------------------- *)
Min(a, b) == IF a < b THEN a ELSE b

Abs(x) == IF x < 0 THEN -x ELSE x

\* s[:n] for n >= 0
Take(s, n) == SubSeq(s, 1, Min(n, Len(s)))

RECURSIVE GCD(_, _)
GCD(a, b) == IF b = 0 THEN a ELSE GCD(b, a % b)

\* the float n/d, d # 0
Rat(n, d) ==
    LET g == GCD(Abs(n), Abs(d))
        s == IF d < 0 THEN -1 ELSE 1
    IN  <<(s * n) \div g, (s * d) \div g>>

RatAdd(x, y) == Rat(x[1] * y[2] + y[1] * x[2], x[2] * y[2])

RatSub(x, y) == Rat(x[1] * y[2] - y[1] * x[2], x[2] * y[2])

RECURSIVE RatSum(_)
RatSum(s) == IF s = <<>> THEN Rat(0, 1) ELSE RatAdd(Head(s), RatSum(Tail(s)))

\* n/d rounded to the nearest integer, ties to even, d > 0: what "%.1f"
\* does to the tenths of an exactly representable value
RoundHalfEven(n, d) ==
    LET q == n \div d
        r == n - q * d
    IN  IF 2 * r < d THEN q
        ELSE IF 2 * r > d THEN q + 1
        ELSE IF q % 2 = 0 THEN q ELSE q + 1

\* "%.1f" % x, as the tenths printed
Fmt1f(x) == RoundHalfEven(10 * x[1], x[2])

Units == <<"bytes", "KB", "MB", "GB">>

RECURSIVE FormatSizeFrom(_, _)
FormatSizeFrom(n, i) ==
    IF i > Len(Units) THEN <<Fmt1f(n), "TB">>
    ELSE IF n[1] < 1024 * n[2] /\ n[1] > (-1024) * n[2] THEN <<Fmt1f(n), Units[i]>>
    ELSE FormatSizeFrom(Rat(n[1], n[2] * 1024), i + 1)

\* format_size(n): <<tenths printed, unit>>
format_size(n) == FormatSizeFrom(n, 1)

\* the loop of moving_average: d is the deque, s the running sum
RECURSIVE MovingAverageLoop(_, _, _, _)
MovingAverageLoop(d, s, rest, n) ==
    IF rest = <<>> THEN <<>>
    ELSE LET elem == Head(rest)
             s2 == RatAdd(s, RatSub(elem, Head(d)))
         IN  <<Rat(s2[1], s2[2] * n)>>
             \o MovingAverageLoop(Tail(d) \o <<elem>>, s2, Tail(rest), n)

\* a generator that fills the deque with n elements instead of n - 1
moving_average_late(iterable, n) ==
    LET d == <<Rat(0, 1)>> \o Take(iterable, n)
    IN  MovingAverageLoop(d, RatSum(d), SubSeq(iterable, n + 1, Len(iterable)), n)

\* list(moving_average(iterable, n))
moving_average(iterable, n) ==
    LET d == <<Rat(0, 1)>> \o Take(iterable, n - 1)
    IN  MovingAverageLoop(d, RatSum(d), SubSeq(iterable, n, Len(iterable)), n)

(* ---------------------------------------------------------------- *)
(* The file system and /proc, as the program reads them             *)
(* ---------------------------------------------------------------- *)
\* what a descriptor points at: the regular files a, b and z, the block device
\* sda, the terminal tty
FileKind(path) ==
    CASE path = "sda" -> "blk"
      [] path = "tty" -> "chr"
      [] OTHER -> "reg"

\* st_size
FileSize(path) ==
    CASE path = "a" -> 1000
      [] path = "b" -> 500
      [] OTHER -> 0

\* a dead /proc entry
Dead == [alive |-> FALSE, readable |-> FALSE, exe |-> "", fds |-> <<>>]

\* a live process running exe, with its open descriptors in listdir order
Live(exe, readable, fds) == [alive |-> TRUE, readable |-> readable, exe |-> exe, fds |-> fds]

\* get_pids(): the live pids (listdir order, taken ascending)
RECURSIVE PidsFrom(_, _)
PidsFrom(P, p) ==
    IF p > Len(P) THEN <<>>
    ELSE (IF P[p].alive THEN <<p>> ELSE <<>>) \o PidsFrom(P, p + 1)

get_pids(P) == PidsFrom(P, 1)

PidInfo(pid, name) == [pid |-> pid, name |-> name]

\* os.readlink('/proc/<pid>/exe') succeeds
ExeReadable(P, pid) == P[pid].alive /\ P[pid].readable

\* the loop of find_pids_by_binary_name over the remaining pids
RECURSIVE FindPidsLoop(_, _, _, _, _)
FindPidsLoop(P, pids, bin_name, max_pids, pid_count) ==
    IF pids = <<>> THEN <<>>
    ELSE LET pid == Head(pids) IN
         IF ~ExeReadable(P, pid) THEN FindPidsLoop(P, Tail(pids), bin_name, max_pids, pid_count)
         ELSE IF P[pid].exe = bin_name
              THEN <<PidInfo(pid, bin_name)>>
                   \o (IF max_pids # None /\ pid_count + 1 = max_pids
                       THEN <<>>
                       ELSE FindPidsLoop(P, Tail(pids), bin_name, max_pids, pid_count + 1))
              ELSE FindPidsLoop(P, Tail(pids), bin_name, max_pids, pid_count)

find_pids_by_binary_name(P, bin_name, max_pids) ==
    FindPidsLoop(P, get_pids(P), bin_name, max_pids, 0)

\* the descriptor of process pid numbered num, as a set of 0 or 1 records
FdOf(P, pid, num) ==
    {P[pid].fds[i] : i \in {j \in 1..Len(P[pid].fds) : P[pid].fds[j].num = num}}

\* the loop of find_fd_for_pid over the directory listing
RECURSIVE FindFdLoop(_, _, _)
FindFdLoop(dir_list, max_fd, count) ==
    IF dir_list = <<>> THEN <<>>
    ELSE LET fd == Head(dir_list) IN
         IF FileKind(fd.path) \notin {"reg", "blk"}
         THEN FindFdLoop(Tail(dir_list), max_fd, count)
         ELSE <<fd.num>>
              \o (IF max_fd # None /\ count + 1 = max_fd
                  THEN <<>>
                  ELSE FindFdLoop(Tail(dir_list), max_fd, count + 1))

find_fd_for_pid(P, pid, max_fd) ==
    IF ~(P[pid].alive /\ P[pid].readable) THEN <<>>
    ELSE FindFdLoop(P[pid].fds, max_fd, 0)

\* get_fdinfo(pid, fdnum) at time t: the FdInfo, or the exception raised
get_fdinfo(P, pid, fdnum, t) ==
    IF ~(P[pid].alive /\ P[pid].readable) \/ FdOf(P, pid, fdnum) = {}
    THEN [raised |-> "OSError"]
    ELSE LET f == CHOOSE x \in FdOf(P, pid, fdnum) : TRUE IN
         IF FileKind(f.path) = "blk" THEN [raised |-> "NameError"]
         ELSE [num |-> fdnum, name |-> f.path, size |-> FileSize(f.path),
               pos |-> f.pos, tv |-> t]

Raised(x) == "raised" \in DOMAIN x

(* ---------------------------------------------------------------- *)
(* State                                                            *)
(* ---------------------------------------------------------------- *)
VARIABLES
    config,        \* AppConfig, as make_config leaves it
    proc,          \* the /proc table: pid -> process
    now,           \* what time() returns
    events,        \* changes of /proc or the clock still to come
    rounds,        \* turns of main's loop still to come
    pc,            \* where main is
    name_i,        \* monitor_processes: index of `name` in config.proc_names
    pidinfos,      \* monitor_processes: pidinfos
    pid_i,         \* monitor_processes: index of `pidinfo` in pidinfos
    fds,           \* monitor_processes: fds
    fd_i,          \* monitor_processes: index of `fd` in fds
    fd_size_max,   \* monitor_processes: fd_size_max
    fd_biggest,    \* monitor_processes: fd_biggest
    results,       \* monitor_processes: results
    res_i,         \* monitor_processes: index of `result` in results
    throughputs,   \* main: throughputs, a dict (pid, fd) -> list of rates
    out,           \* what nprint has put on the terminal, one entry per call
    ret,           \* main: results, the value monitor_processes returned
    err,           \* the exception that ended the run, or "none"
    mainwin,       \* main: the curses window, "none" before initscr and without curses
    handler,       \* main: int_handler is installed for SIGINT
    arg,           \* a library call: the arguments handed over
    made,          \* a library call: what it gave
    of_pc,         \* open_files: where it is
    dir_list,      \* open_files: dir_list
    of_i,          \* open_files: index of `fd` in dir_list
    fdpath,        \* open_files: fdpath, once resolved and stat'ed
    of_ret         \* open_files: ret

envVars == <<proc, now, events>>
findVars == <<name_i, pidinfos>>
scanVars == <<pid_i, fds, fd_i, fd_size_max, fd_biggest>>
vars == <<config, proc, now, events, rounds, pc, name_i, pidinfos, pid_i, fds, fd_i,
          fd_size_max, fd_biggest, results, res_i, throughputs, out, ret, err,
          mainwin, handler, arg, made, of_pc, dir_list, of_i, fdpath, of_ret>>
\* the curses window and the SIGINT handler of main
termVars == <<mainwin, handler>>
\* the locals of Process.open_files
openVars == <<of_pc, dir_list, of_i, fdpath, of_ret>>
\* the state of the library calls, which cv.py leaves alone
libVars == <<arg, made, openVars>>
\* everything cv.py and main hold, which a library call leaves alone
cvVars == <<config, proc, now, events, rounds, pc, name_i, pidinfos, pid_i, fds, fd_i,
            fd_size_max, fd_biggest, results, res_i, throughputs, out, ret, err, termVars>>

\* config.curses
Curses(cfg) == cfg.monitor \/ cfg.monitor_continuous

\* the int 0 that fd_biggest starts as and monitor_processes returns
Int0 == [int |-> 0]

IsFdInfo(x) == "num" \in DOMAIN x

\* a returned list
ListOf(l) == [list |-> l]

\* bool(x) of what monitor_processes returned
Truthy(x) == "list" \in DOMAIN x /\ x.list # <<>>

\* throughputs[tkey] of the defaultdict(list)
Hist(T, tkey) == IF tkey \in DOMAIN T THEN T[tkey] ELSE <<>>

\* throughputs[tkey] = h
SetHist(T, tkey, h) == [k \in DOMAIN T \cup {tkey} |-> IF k = tkey THEN h ELSE T[k]]

(* ---------------------------------------------------------------- *)
(* Inputs                                                           *)
(* ---------------------------------------------------------------- *)
Commands == {"cp", "mv"}

\* descriptor 0 is the terminal
Stdio == <<[num |-> 0, path |-> "tty", pos |-> 0]>>

\* the descriptor tables a process starts with: the terminal, then up to two
\* files numbered 3, 4 in order
FdTables(paths) ==
    UNION {{Stdio \o [i \in 1..n |-> [num |-> 2 + i, path |-> f[i], pos |-> 0]]
            : f \in [1..n -> paths]} : n \in 0..2}

Configs(nameLists, modes) ==
    {[proc_names |-> ns, quiet |-> q, throughput |-> t, monitor |-> m[1],
      monitor_continuous |-> m[2], throughput_wait_secs |-> DefaultWaitSecs]
     : ns \in nameLists, q \in BOOLEAN, t \in BOOLEAN, m \in modes}

\* nothing yet
NoValue == [type |-> "none"]

\* fresh locals
FreshLocals ==
    /\ now = 0
    /\ name_i = 1
    /\ pidinfos = <<>>
    /\ pid_i = 1
    /\ fds = <<>>
    /\ fd_i = 1
    /\ fd_size_max = 0
    /\ fd_biggest = Int0
    /\ results = <<>>
    /\ res_i = 1
    /\ throughputs = <<>>
    /\ out = <<>>
    /\ ret = ListOf(<<>>)
    /\ err = "none"
    /\ made = NoValue
    /\ of_pc = "idle"
    /\ dir_list = <<>>
    /\ of_i = 1
    /\ fdpath = ""
    /\ of_ret = <<>>

\* main about to enter monitor_processes for the first time: the window is up
\* if curses is wanted, and int_handler is installed
InitLocals ==
    /\ pc = "find"
    /\ mainwin = (IF Curses(config) THEN "open" ELSE "none")
    /\ handler = TRUE
    /\ FreshLocals

\* one call of monitor_processes; two processes, each gone, an mv, or a cp with
\* any descriptor table
Init ==
    /\ config \in Configs({<<"cp">>, <<"mv", "cp">>}, BOOLEAN \X BOOLEAN)
    /\ proc \in [{1, 2} ->
                    {Dead, Live("mv", TRUE, Stdio)}
                    \cup {Live("cp", TRUE, t) : t \in FdTables({"a", "z"})}]
    /\ events = MaxEvents
    /\ rounds = 0
    /\ arg = NoValue
    /\ InitLocals

\* main looping (-m, -M) with throughput wanted; one cp with one file
InitLoop ==
    /\ config \in {c \in Configs({<<"cp">>}, BOOLEAN \X BOOLEAN)
                     : c.throughput /\ ~c.quiet /\ Curses(c)}
    /\ proc = <<Live("cp", TRUE, Stdio \o <<[num |-> 3, path |-> "a", pos |-> 0]>>)>>
    /\ events = MaxLoopEvents
    /\ rounds = MaxLoopRounds
    /\ arg = NoValue
    /\ InitLocals

\* a /proc table of n entries whose executables repeat with period PatLen
PatternTable(n, pat) ==
    [p \in 1..n |->
        LET e == pat[(p % PatLen) + 1] IN
        CASE e = "gone" -> Dead
          [] e = "denied" -> Live("cp", FALSE, <<>>)
          [] OTHER -> Live(e, TRUE, <<>>)]

InitFind ==
    /\ config \in {c \in Configs({<<a>> : a \in Commands} \cup (Commands \X Commands), {<<FALSE, FALSE>>})
                     : ~c.throughput}
    /\ proc \in {PatternTable(n, pat) : n \in 0..MaxLivePids,
                                         pat \in [1..PatLen -> Commands \cup {"gone", "denied"}]}
    /\ events = 0
    /\ rounds = 0
    /\ arg = NoValue
    /\ InitLocals

(* ---------------------------------------------------------------- *)
(* monitor_processes: building the candidate list                   *)
(* ---------------------------------------------------------------- *)
\* a slice that keeps one entry too many
TruncatePidsOneMore(l) == Take(l, MAX_PIDS + 1)

\* pidinfos[:MAX_PIDS]
TruncatePids(l) == Take(l, MAX_PIDS)

\* "No command currently running: %s. exiting"
NoCommandLine(names) == [k |-> "nocommand", names |-> names]

\* one turn of `for name in config.proc_names`
FindPids ==
    /\ pc = "find"
    /\ name_i <= Len(config.proc_names)
    /\ pidinfos' = pidinfos \o find_pids_by_binary_name(proc, config.proc_names[name_i], None)
    /\ name_i' = name_i + 1
    /\ UNCHANGED <<libVars, termVars, config, envVars, rounds, pc, scanVars, results, res_i, throughputs, out, ret, err>>

\* a branch that prints the message whether quiet or not
NoCommandOutLoud(cfg, o) ==
    (IF Curses(cfg) THEN <<>> ELSE o) \o <<NoCommandLine(cfg.proc_names)>>

\* the terminal after the `if not pidinfos` branch
NoCommandOut(cfg, o) ==
    IF cfg.quiet THEN o
    ELSE (IF Curses(cfg) THEN <<>> ELSE o) \o <<NoCommandLine(cfg.proc_names)>>

\* pidinfos[:MAX_PIDS] is empty: `return 0`, after the message unless quiet
NoCommand ==
    /\ pc = "find"
    /\ name_i > Len(config.proc_names)
    /\ TruncatePids(pidinfos) = <<>>
    /\ pidinfos' = <<>>
    /\ out' = NoCommandOut(config, out)
    /\ ret' = Int0
    /\ pc' = "returned"
    /\ UNCHANGED <<libVars, termVars, config, envVars, rounds, name_i, scanVars, results, res_i, throughputs, err>>

\* pidinfos[:MAX_PIDS] is not empty: on to `for pidinfo in pidinfos`
StartScan ==
    /\ pc = "find"
    /\ name_i > Len(config.proc_names)
    /\ TruncatePids(pidinfos) # <<>>
    /\ pidinfos' = TruncatePids(pidinfos)
    /\ pid_i' = 1
    /\ pc' = "scan"
    /\ UNCHANGED <<libVars, termVars, config, envVars, rounds, name_i, fds, fd_i, fd_size_max, fd_biggest,
                   results, res_i, throughputs, out, ret, err>>

NextFind == FindPids \/ NoCommand \/ StartScan

SpecFind == InitFind /\ [][NextFind]_vars

(* ---------------------------------------------------------------- *)
(* monitor_processes: the biggest descriptor of each candidate      *)
(* ---------------------------------------------------------------- *)
\* fds[:MAX_FD_PER_PID]
TruncateFds(l) == Take(l, MAX_FD_PER_PID)

\* the descriptors of the candidate at hand
ListedFds(P, pidinfo) == TruncateFds(find_fd_for_pid(P, pidinfo.pid, None))

\* "[%5d] %s inactive/flushing/streaming/...\n"
InactiveLine(pidinfo) == [k |-> "inactive", pid |-> pidinfo.pid, name |-> pidinfo.name]

\* `if fd_info.size > fd_size_max`
Bigger(fd_info, size_max) == fd_info.size > size_max

Result(pidinfo, fd) == [pid |-> pidinfo, fd |-> fd]

\* the inactive branch without its `continue`: the Result is stored all the same
ScanInactiveFallsThrough ==
    /\ pc = "scan"
    /\ pid_i <= Len(pidinfos)
    /\ ListedFds(proc, pidinfos[pid_i]) = <<>>
    /\ out' = Append(out, InactiveLine(pidinfos[pid_i]))
    /\ results' = Append(results, Result(pidinfos[pid_i], Int0))
    /\ pid_i' = pid_i + 1
    /\ UNCHANGED <<libVars, termVars, config, envVars, rounds, pc, findVars, fds, fd_i, fd_size_max,
                   fd_biggest, res_i, throughputs, ret, err>>

\* `if not fds`: the inactive line, and `continue`
ScanInactive ==
    /\ pc = "scan"
    /\ pid_i <= Len(pidinfos)
    /\ ListedFds(proc, pidinfos[pid_i]) = <<>>
    /\ out' = Append(out, InactiveLine(pidinfos[pid_i]))
    /\ pid_i' = pid_i + 1
    /\ UNCHANGED <<libVars, termVars, config, envVars, rounds, pc, findVars, fds, fd_i, fd_size_max, fd_biggest,
                   results, res_i, throughputs, ret, err>>

\* find_fd_for_pid found descriptors: on to `for fd in fds`
ListFds ==
    /\ pc = "scan"
    /\ pid_i <= Len(pidinfos)
    /\ ListedFds(proc, pidinfos[pid_i]) # <<>>
    /\ fds' = ListedFds(proc, pidinfos[pid_i])
    /\ fd_i' = 1
    /\ fd_size_max' = 0
    /\ fd_biggest' = Int0
    /\ pc' = "fdinfo"
    /\ UNCHANGED <<libVars, termVars, config, envVars, rounds, findVars, pid_i, results, res_i, throughputs,
                   out, ret, err>>

\* one turn of `for fd in fds`; after the last, the Result is stored
ReadFd ==
    /\ pc = "fdinfo"
    /\ LET fd_info == get_fdinfo(proc, pidinfos[pid_i].pid, fds[fd_i], now)
           bigger == Bigger(fd_info, fd_size_max)
           biggest == IF bigger THEN fd_info ELSE fd_biggest
       IN  /\ ~Raised(fd_info)
           /\ fd_size_max' = IF bigger THEN fd_info.size ELSE fd_size_max
           /\ fd_biggest' = biggest
           /\ IF fd_i < Len(fds)
              THEN /\ fd_i' = fd_i + 1
                   /\ UNCHANGED <<pc, pid_i, results>>
              ELSE /\ results' = Append(results, Result(pidinfos[pid_i], biggest))
                   /\ pid_i' = pid_i + 1
                   /\ pc' = "scan"
                   /\ UNCHANGED fd_i
    /\ UNCHANGED <<libVars, termVars, config, envVars, rounds, findVars, fds, res_i, throughputs, out, ret, err>>

\* get_fdinfo raises inside `for fd in fds`: nothing catches it
ReadFdRaises ==
    /\ pc = "fdinfo"
    /\ LET fd_info == get_fdinfo(proc, pidinfos[pid_i].pid, fds[fd_i], now)
       IN  /\ Raised(fd_info)
           /\ err' = fd_info.raised
    /\ pc' = "raised"
    /\ UNCHANGED <<libVars, termVars, config, envVars, rounds, findVars, scanVars, results, res_i, throughputs,
                   out, ret>>

\* after the scan: sleep if throughput is wanted, clear the window if there is one
Wait ==
    /\ pc = "scan"
    /\ pid_i > Len(pidinfos)
    /\ now' = IF config.throughput THEN now + config.throughput_wait_secs ELSE now
    /\ out' = IF Curses(config) THEN <<>> ELSE out
    /\ res_i' = 1
    /\ pc' = "report"
    /\ UNCHANGED <<libVars, termVars, config, proc, events, rounds, findVars, scanVars, results, throughputs,
                   ret, err>>

(* ---------------------------------------------------------------- *)
(* monitor_processes: the report                                    *)
(* ---------------------------------------------------------------- *)
\* a comparison that trusts the descriptor number alone
SameDescriptor(cur_fd_info, first) == cur_fd_info.num = first.num

\* `if cur_fd_info.name == result.fd.name`
SameFile(cur_fd_info, first) == cur_fd_info.name = first.name

\* progress_pcnt
ProgressPcnt(fd) ==
    IF fd.pos > 0 /\ fd.size > 0 THEN Rat(fd.pos, fd.size) ELSE Rat(0, 1)

\* "[%5d] %s %s %.1f%% (%s / %s)"
ProgressLine(pidinfo, fd) ==
    [k |-> "progress", pid |-> pidinfo.pid, name |-> pidinfo.name, path |-> fd.name,
     pcnt |-> Fmt1f(ProgressPcnt(fd)),
     pos |-> format_size(Rat(fd.pos, 1)), size |-> format_size(Rat(fd.size, 1))]

\* " %s/s"
RateLine(bytes_per_sec) == [k |-> "rate", rate |-> format_size(bytes_per_sec)]

NewLine == [k |-> "nl"]

\* a slice that keeps one entry too many
TruncateHistLate(h) == Take(h, THROUGHPUT_SAMPLE_SIZE)

\* throughputs[tkey][:THROUGHPUT_SAMPLE_SIZE-1]
TruncateHist(h) == Take(h, THROUGHPUT_SAMPLE_SIZE - 1)

\* a rate that averages whatever the history holds
BytesPerSecEager(h) ==
    LET w == RatSum(h) IN IF h = <<>> THEN Rat(0, 1) ELSE Rat(w[1], w[2] * Len(h))

\* bytes_per_sec
BytesPerSec(h) ==
    LET throughput_moving_avg == moving_average(h, DefaultWindow)
    IN  IF throughput_moving_avg # <<>>
        THEN throughput_moving_avg[Len(throughput_moving_avg)]
        ELSE Rat(0, 1)

\* the throughput part of one turn of `for result in results`, fd being the
\* re-read FdInfo: what is printed, the new throughputs, the exception raised
ThroughputStep(T, result, fd) ==
    LET sec_diff == fd.tv - result.fd.tv
        byte_diff == fd.pos - result.fd.pos
        tkey == <<result.pid.pid, fd.num>>
        cut == TruncateHist(Hist(T, tkey))
    IN  IF sec_diff = 0
        THEN [out |-> <<>>, T |-> SetHist(T, tkey, cut), raised |-> "ZeroDivisionError"]
        ELSE LET h == Append(cut, Rat(byte_diff, sec_diff))
             IN  [out |-> <<RateLine(BytesPerSec(h)), NewLine>>, T |-> SetHist(T, tkey, h),
                  raised |-> "none"]

\* one turn of `for result in results`
ReportStep(cfg, P, t, T, result) ==
    IF ~IsFdInfo(result.fd)
    THEN [out |-> <<>>, T |-> T, raised |-> "AttributeError"]
    ELSE IF ~cfg.throughput
    THEN [out |-> <<ProgressLine(result.pid, result.fd), NewLine>>, T |-> T, raised |-> "none"]
    ELSE LET cur_fd_info == get_fdinfo(P, result.pid.pid, result.fd.num, t) IN
         IF Raised(cur_fd_info)
         THEN [out |-> <<>>, T |-> T, raised |-> cur_fd_info.raised]
         ELSE IF ~SameFile(cur_fd_info, result.fd)
         THEN [out |-> <<ProgressLine(result.pid, result.fd), NewLine>>, T |-> T,
               raised |-> "none"]
         ELSE LET r == ThroughputStep(T, result, cur_fd_info)
              IN  [out |-> <<ProgressLine(result.pid, cur_fd_info)>> \o r.out, T |-> r.T,
                   raised |-> r.raised]

Report ==
    /\ pc = "report"
    /\ res_i <= Len(results)
    /\ LET r == ReportStep(config, proc, now, throughputs, results[res_i])
       IN  /\ r.raised = "none"
           /\ out' = out \o r.out
           /\ throughputs' = r.T
    /\ res_i' = res_i + 1
    /\ UNCHANGED <<libVars, termVars, config, envVars, rounds, pc, findVars, scanVars, results, ret, err>>

\* an exception inside `for result in results`: nothing catches it
ReportRaises ==
    /\ pc = "report"
    /\ res_i <= Len(results)
    /\ LET r == ReportStep(config, proc, now, throughputs, results[res_i])
       IN  /\ r.raised # "none"
           /\ out' = out \o r.out
           /\ throughputs' = r.T
           /\ err' = r.raised
    /\ pc' = "raised"
    /\ UNCHANGED <<libVars, termVars, config, envVars, rounds, findVars, scanVars, results, res_i, ret>>

\* `return results`
Return ==
    /\ pc = "report"
    /\ res_i > Len(results)
    /\ ret' = ListOf(results)
    /\ pc' = "returned"
    /\ UNCHANGED <<libVars, termVars, config, envVars, rounds, findVars, scanVars, results, res_i, throughputs,
                   out, err>>

(* ---------------------------------------------------------------- *)
(* main                                                             *)
(* ---------------------------------------------------------------- *)
\* `if not ((config.monitor and results) or config.monitor_continuous): break`
LoopsOn(cfg, r) == (cfg.monitor /\ Truthy(r)) \/ cfg.monitor_continuous

\* the while loop goes round: monitor_processes is entered again
LoopAgain ==
    /\ pc = "returned"
    /\ Curses(config)
    /\ LoopsOn(config, ret)
    /\ rounds > 0
    /\ rounds' = rounds - 1
    /\ now' = IF config.monitor_continuous /\ ~Truthy(ret)
              THEN now + config.throughput_wait_secs ELSE now
    /\ pc' = "find"
    /\ name_i' = 1
    /\ pidinfos' = <<>>
    /\ results' = <<>>
    /\ UNCHANGED <<libVars, termVars, config, proc, events, scanVars, res_i, throughputs, out, ret, err>>

\* endwin(window), as far as the window goes
endwin(window) == IF window = "none" THEN window ELSE "ended"

\* the single call has returned, or the loop breaks: the finally block and out
Exit ==
    /\ pc = "returned"
    /\ ~(Curses(config) /\ LoopsOn(config, ret))
    /\ pc' = "exit"
    /\ mainwin' = endwin(mainwin)
    /\ UNCHANGED <<libVars, handler, config, envVars, rounds, findVars, scanVars, results, res_i, throughputs,
                   out, ret, err>>

(* ---------------------------------------------------------------- *)
(* The world: /proc and the clock change while the program runs     *)
(* ---------------------------------------------------------------- *)
\* The program is about to read /proc or the clock.  A change at any other
\* moment is seen by the program exactly as the same change made just before
\* its next read, so changes are taken at these moments only.
Running ==
    \/ arg.type = "open_files" /\ of_pc # "done"
    \/ pc = "find" /\ name_i <= Len(config.proc_names)
    \/ pc = "scan" /\ pid_i <= Len(pidinfos)
    \/ pc = "fdinfo"
    \/ pc = "report" /\ res_i <= Len(results)

\* a process exits
ProcExit ==
    /\ Running /\ events > 0
    /\ \E p \in DOMAIN proc :
        /\ proc[p].alive
        /\ proc' = [proc EXCEPT ![p] = Dead]
    /\ events' = events - 1
    /\ UNCHANGED <<libVars, termVars, config, now, rounds, pc, findVars, scanVars, results, res_i, throughputs,
                   out, ret, err>>

\* a process closes a descriptor
FdClose ==
    /\ Running /\ events > 0
    /\ \E p \in DOMAIN proc : \E i \in 1..Len(proc[p].fds) :
        /\ FileKind(proc[p].fds[i].path) = "reg"
        /\ proc' = [proc EXCEPT ![p].fds =
                    SubSeq(proc[p].fds, 1, i - 1) \o SubSeq(proc[p].fds, i + 1, Len(proc[p].fds))]
    /\ events' = events - 1
    /\ UNCHANGED <<libVars, termVars, config, now, rounds, pc, findVars, scanVars, results, res_i, throughputs,
                   out, ret, err>>

\* a process closes a descriptor and opens another file, which gets the same number
FdReopen ==
    /\ Running /\ events > 0
    /\ \E p \in DOMAIN proc : \E i \in 1..Len(proc[p].fds) : \E path \in {"b"} :
        /\ FileKind(proc[p].fds[i].path) = "reg"
        /\ proc' = [proc EXCEPT ![p].fds[i] = [num |-> @.num, path |-> path, pos |-> 0]]
    /\ events' = events - 1
    /\ UNCHANGED <<libVars, termVars, config, now, rounds, pc, findVars, scanVars, results, res_i, throughputs,
                   out, ret, err>>

\* a process reads or writes on: the position of a descriptor moves a quarter on
Advance ==
    /\ Running /\ events > 0
    /\ \E p \in DOMAIN proc : \E i \in 1..Len(proc[p].fds) :
        LET f == proc[p].fds[i]
            step == FileSize(f.path) \div 4
        IN  /\ step > 0
            /\ f.pos + step <= FileSize(f.path)
            /\ proc' = [proc EXCEPT ![p].fds[i].pos = f.pos + step]
    /\ events' = events - 1
    /\ UNCHANGED <<libVars, termVars, config, now, rounds, pc, findVars, scanVars, results, res_i, throughputs,
                   out, ret, err>>

\* the wall clock is set back (time() is not monotonic)
ClockSetBack ==
    /\ Running /\ events > 0
    /\ \E d \in {1, 2} : now' = now - d
    /\ events' = events - 1
    /\ UNCHANGED <<libVars, termVars, config, proc, rounds, pc, findVars, scanVars, results, res_i, throughputs,
                   out, ret, err>>

World == ProcExit \/ FdClose \/ FdReopen \/ Advance \/ ClockSetBack

\* one call of monitor_processes, and main's way out
NextCycle ==
    \/ FindPids \/ NoCommand \/ StartScan
    \/ ScanInactive \/ ListFds \/ ReadFd \/ ReadFdRaises \/ Wait
    \/ Report \/ ReportRaises \/ Return
    \/ Exit
    \/ World

Next == NextCycle \/ LoopAgain

Spec == Init /\ [][NextCycle]_vars

SpecLoop == InitLoop /\ [][Next]_vars

(* ---------------------------------------------------------------- *)
(* main from its first line, and SIGINT                             *)
(* ---------------------------------------------------------------- *)
\* main after make_config: -m or -M with -w on one cp with one file
InitMain ==
    /\ config \in {c \in Configs({<<"cp">>}, BOOLEAN \X BOOLEAN)
                     : c.throughput /\ ~c.quiet /\ Curses(c)}
    /\ proc = <<Live("cp", TRUE, Stdio \o <<[num |-> 3, path |-> "a", pos |-> 0]>>)>>
    /\ events = MaxLoopEvents
    /\ rounds = MaxLoopRounds
    /\ arg = NoValue
    /\ pc = "start"
    /\ mainwin = "none"
    /\ handler = FALSE
    /\ FreshLocals

\* `if config.curses: mainwin = curses.initscr()`
InitScr ==
    /\ pc = "start"
    /\ mainwin' = (IF Curses(config) THEN "open" ELSE mainwin)
    /\ pc' = "signal"
    /\ UNCHANGED <<libVars, handler, config, envVars, rounds, findVars, scanVars, results, res_i,
                   throughputs, out, ret, err>>

\* `signal.signal(signal.SIGINT, int_handler)`, and on into the try and the loop
InstallHandler ==
    /\ pc = "signal"
    /\ handler' = TRUE
    /\ pc' = "find"
    /\ UNCHANGED <<libVars, mainwin, config, envVars, rounds, findVars, scanVars, results, res_i,
                   throughputs, out, ret, err>>

\* SIGINT with int_handler installed: endwin(mainwin), sys.exit(0); the finally
\* block the SystemExit passes through calls endwin once more
IntHandler ==
    /\ pc # "exit"
    /\ handler
    /\ mainwin' = endwin(mainwin)
    /\ err' = "SystemExit"
    /\ pc' = "exit"
    /\ UNCHANGED <<libVars, handler, config, envVars, rounds, findVars, scanVars, results, res_i,
                   throughputs, out, ret>>

\* SIGINT before int_handler is installed: Python's own handler raises
\* KeyboardInterrupt, here outside the try
KeyboardInterrupt ==
    /\ pc # "exit"
    /\ ~handler
    /\ err' = "KeyboardInterrupt"
    /\ pc' = "exit"
    /\ UNCHANGED <<libVars, termVars, config, envVars, rounds, findVars, scanVars, results, res_i,
                   throughputs, out, ret>>

\* an exception leaves monitor_processes: the finally block, and out
Abort ==
    /\ pc = "raised"
    /\ mainwin' = endwin(mainwin)
    /\ pc' = "exit"
    /\ UNCHANGED <<libVars, handler, config, envVars, rounds, findVars, scanVars, results, res_i,
                   throughputs, out, ret, err>>

NextMain == InitScr \/ InstallHandler \/ IntHandler \/ KeyboardInterrupt \/ Abort \/ Next

SpecMain == InitMain /\ [][NextMain]_vars

(* ---------------------------------------------------------------- *)
(* procutil: Process                                                *)
(* ---------------------------------------------------------------- *)
\* what a caller can hand to Process(): an int, a float or a str
PidArgs ==
    {[type |-> t, v |-> n] : t \in {"int", "float"}, n \in (-MaxPidArg)..MaxPidArg}
    \cup {[type |-> "str", v |-> 0]}

\* Process.__init__: the object made
Process(pid) == [type |-> "Process", pid |-> pid]

InitProcess ==
    /\ config \in Configs({<<"cp">>}, {<<FALSE, FALSE>>})
    /\ proc = <<>>
    /\ events = 0
    /\ rounds = 0
    /\ arg \in PidArgs
    /\ InitLocals

\* Process(arg)
MakeProcess ==
    /\ made = NoValue
    /\ made' = Process(arg)
    /\ UNCHANGED <<config, proc, now, events, rounds, pc, name_i, pidinfos, pid_i, fds, fd_i,
                   fd_size_max, fd_biggest, results, res_i, throughputs, out, ret, err, arg,
                   termVars, openVars>>

SpecProcess == InitProcess /\ [][MakeProcess]_vars

(* ---------------------------------------------------------------- *)
(* procutil: Process.open_files                                     *)
(* ---------------------------------------------------------------- *)
\* openfile(fd, path, fdinfo(fd, size, pos))
openfile(fd, path, fsize, fpos) ==
    [fd |-> fd, path |-> path, fdinfo |-> [fd |-> fd, size |-> fsize, pos |-> fpos]]

\* os.listdir('/proc/<pid>/fd'): every descriptor, whatever it points at
ListDir(P, pid) == [i \in 1..Len(P[pid].fds) |-> P[pid].fds[i].num]

\* /proc/<pid>/fd can be listed, /proc/<pid>/fdinfo read
Listable(P, pid) == pid \in DOMAIN P /\ P[pid].alive /\ P[pid].readable

\* Process(1).open_files on a process that is gone, or denied, or running with
\* any descriptor table of files and block devices
InitOpenFiles ==
    /\ config \in {c \in Configs({<<"cp">>}, {<<FALSE, FALSE>>}) : ~c.quiet /\ ~c.throughput}
    /\ proc \in [{1} ->
                    {Dead, Live("cp", FALSE, Stdio)}
                    \cup {Live("cp", TRUE, t) : t \in FdTables({"a", "z", "sda"})}]
    /\ events = MaxEvents
    /\ rounds = 0
    /\ arg = [type |-> "open_files", pid |-> 1]
    /\ pc = "idle"
    /\ mainwin = "none"
    /\ handler = FALSE
    /\ FreshLocals

\* os.listdir fails: `return []`
OpenFilesDenied ==
    /\ arg.type = "open_files" /\ of_pc = "idle"
    /\ ~Listable(proc, arg.pid)
    /\ made' = ListOf(<<>>)
    /\ of_pc' = "done"
    /\ UNCHANGED <<cvVars, arg, dir_list, of_i, fdpath, of_ret>>

\* os.listdir succeeds: on to `for fd in dir_list`
OpenFilesList ==
    /\ arg.type = "open_files" /\ of_pc = "idle"
    /\ Listable(proc, arg.pid)
    /\ dir_list' = ListDir(proc, arg.pid)
    /\ of_i' = 1
    /\ of_ret' = <<>>
    /\ of_pc' = "stat"
    /\ UNCHANGED <<cvVars, arg, made, fdpath>>

\* islink, readlink and stat of one descriptor: the path it resolves to, or
\* "" when the stat raised OSError
StatPath(P, pid, fd) ==
    IF ~Listable(P, pid) \/ FdOf(P, pid, fd) = {} THEN ""
    ELSE (CHOOSE x \in FdOf(P, pid, fd) : TRUE).path

\* the descriptor is gone or is no regular file or block device: `continue`
OpenFilesSkip ==
    /\ of_pc = "stat" /\ of_i <= Len(dir_list)
    /\ LET path == StatPath(proc, arg.pid, dir_list[of_i])
       IN  path = "" \/ FileKind(path) \notin {"reg", "blk"}
    /\ of_i' = of_i + 1
    /\ UNCHANGED <<cvVars, arg, made, of_pc, dir_list, fdpath, of_ret>>

\* a regular file: fsize is known, on to the read of fdinfo
OpenFilesStat ==
    /\ of_pc = "stat" /\ of_i <= Len(dir_list)
    /\ LET path == StatPath(proc, arg.pid, dir_list[of_i])
       IN  /\ path # "" /\ FileKind(path) = "reg"
           /\ fdpath' = path
    /\ of_pc' = "read"
    /\ UNCHANGED <<cvVars, arg, made, dir_list, of_i, of_ret>>

\* a block device: `fdinfo.name` is looked up on the namedtuple class, which
\* has no such attribute
OpenFilesBlockRaises ==
    /\ of_pc = "stat" /\ of_i <= Len(dir_list)
    /\ LET path == StatPath(proc, arg.pid, dir_list[of_i])
       IN  path # "" /\ FileKind(path) = "blk"
    /\ made' = [raised |-> "AttributeError"]
    /\ of_pc' = "done"
    /\ UNCHANGED <<cvVars, arg, dir_list, of_i, fdpath, of_ret>>

\* /proc/<pid>/fdinfo/<fd> is read and the openfile appended
OpenFilesRead ==
    /\ of_pc = "read"
    /\ Listable(proc, arg.pid) /\ FdOf(proc, arg.pid, dir_list[of_i]) # {}
    /\ LET fd == dir_list[of_i]
           fpos == (CHOOSE x \in FdOf(proc, arg.pid, fd) : TRUE).pos
       IN  of_ret' = Append(of_ret, openfile(fd, fdpath, FileSize(fdpath), fpos))
    /\ of_i' = of_i + 1
    /\ of_pc' = "stat"
    /\ UNCHANGED <<cvVars, arg, made, dir_list, fdpath>>

\* /proc/<pid>/fdinfo/<fd> is gone: open() raises, outside any try
OpenFilesReadRaises ==
    /\ of_pc = "read"
    /\ ~(Listable(proc, arg.pid) /\ FdOf(proc, arg.pid, dir_list[of_i]) # {})
    /\ made' = [raised |-> "IOError"]
    /\ of_pc' = "done"
    /\ UNCHANGED <<cvVars, arg, dir_list, of_i, fdpath, of_ret>>

\* `return ret`
OpenFilesReturn ==
    /\ of_pc = "stat" /\ of_i > Len(dir_list)
    /\ made' = ListOf(of_ret)
    /\ of_pc' = "done"
    /\ UNCHANGED <<cvVars, arg, dir_list, of_i, fdpath, of_ret>>

NextOpenFiles ==
    \/ OpenFilesDenied \/ OpenFilesList
    \/ OpenFilesSkip \/ OpenFilesStat \/ OpenFilesBlockRaises
    \/ OpenFilesRead \/ OpenFilesReadRaises
    \/ OpenFilesReturn
    \/ World

SpecOpenFiles == InitOpenFiles /\ [][NextOpenFiles]_vars

(* ---------------------------------------------------------------- *)
(* find_pids_by_binary_name with a limit                            *)
(* ---------------------------------------------------------------- *)
\* the calls made: a name and a limit max_pids >= 0
LimitArgs ==
    {[type |-> "find_pids_by_binary_name", bin_name |-> b, max_pids |-> k]
     : b \in Commands, k \in 0..MaxLimit}

InitLimit ==
    /\ config \in {c \in Configs({<<"cp">>}, {<<FALSE, FALSE>>}) : ~c.quiet /\ ~c.throughput}
    /\ proc \in {PatternTable(n, pat) : n \in 0..MaxTablePids,
                                         pat \in [1..PatLen -> Commands \cup {"gone", "denied"}]}
    /\ events = 0
    /\ rounds = 0
    /\ arg \in LimitArgs
    /\ InitLocals

\* find_pids_by_binary_name(bin_name, max_pids=k)
CallFindPids ==
    /\ arg.type = "find_pids_by_binary_name"
    /\ made = NoValue
    /\ made' = ListOf(find_pids_by_binary_name(proc, arg.bin_name, arg.max_pids))
    /\ UNCHANGED <<cvVars, arg, openVars>>

SpecLimit == InitLimit /\ [][CallFindPids]_vars

(* ---------------------------------------------------------------- *)
(* util: moving_average                                             *)
(* ---------------------------------------------------------------- *)
\* the sequence of the comment in moving_average
DocSequence == <<40, 30, 50, 46, 39, 44>>

\* the numbers of l as floats
Floats(l) == [i \in 1..Len(l) |-> Rat(l[i], 1)]

\* the calls made: every sequence of up to MaxSeqLen rates, and DocSequence
AverageArgs ==
    {[type |-> "moving_average", iterable |-> Floats(l), n |-> n]
     : l \in UNION {[1..k -> {-30, 0, 40}] : k \in 0..MaxSeqLen} \cup {DocSequence},
       n \in 1..MaxWindow}

InitAverage ==
    /\ config \in Configs({<<"cp">>}, {<<FALSE, FALSE>>})
    /\ proc = <<>>
    /\ events = 0
    /\ rounds = 0
    /\ arg \in AverageArgs
    /\ InitLocals

\* list(moving_average(iterable, n))
CallMovingAverage ==
    /\ made = NoValue
    /\ made' = ListOf(moving_average(arg.iterable, arg.n))
    /\ UNCHANGED <<cvVars, arg, openVars>>

SpecAverage == InitAverage /\ [][CallMovingAverage]_vars

(* ---------------------------------------------------------------- *)
(* Properties                                                       *)
(* ---------------------------------------------------------------- *)
\* a step of the program, as opposed to a change of the world
ProgramStep ==
    pc' # pc \/ name_i' # name_i \/ pid_i' # pid_i \/ fd_i' # fd_i \/ res_i' # res_i

\* the entries of ps come in the order of the names ns
RECURSIVE NamesInOrder(_, _)
NamesInOrder(ps, ns) ==
    IF ps = <<>> THEN TRUE
    ELSE IF ns = <<>> THEN FALSE
    ELSE IF Head(ps).name = Head(ns) THEN NamesInOrder(Tail(ps), ns)
    ELSE NamesInOrder(ps, Tail(ns))

\* how many live, readable processes run one of the names, counted per name
RECURSIVE MatchCount(_, _)
MatchCount(P, ns) ==
    IF ns = <<>> THEN 0
    ELSE Cardinality({p \in DOMAIN P : ExeReadable(P, p) /\ P[p].exe = Head(ns)})
         + MatchCount(P, Tail(ns))

\* the candidate list is complete
ListBuilt == pc \in {"scan", "returned"}

\* C1: the candidate list a cycle builds has at most MAX_PIDS (32) entries, each
\* a live process running the name it was matched by, and the entries matched
\* by an earlier configured name come before those matched by a later one.
C1_CandidatesBoundedAndOrdered ==
    ListBuilt =>
        /\ Len(pidinfos) <= MAX_PIDS
        /\ NamesInOrder(pidinfos, config.proc_names)
        /\ \A i \in 1..Len(pidinfos) :
              ExeReadable(proc, pidinfos[i].pid) /\ proc[pidinfos[i].pid].exe = pidinfos[i].name

\* more than 32 processes match, of two names, and the list was cut to 32
C1_Witness ==
    /\ pc = "scan"
    /\ MatchCount(proc, config.proc_names) > MAX_PIDS
    /\ Len(pidinfos) = MAX_PIDS
    /\ pidinfos[1].name # pidinfos[MAX_PIDS].name

\* the sizes get_fdinfo reads for the listed descriptors nums of process pid
ListedSizes(P, pid, nums) == [j \in 1..Len(nums) |-> get_fdinfo(P, pid, nums[j], 0).size]

\* fd is the first entry of maximum size among the descriptors listed for pidinfo
FirstBiggest(P, pidinfo, fd) ==
    LET nums == ListedFds(P, pidinfo)
        sizes == ListedSizes(P, pidinfo.pid, nums)
    IN  /\ IsFdInfo(fd)
        /\ \E j \in 1..Len(nums) :
              /\ fd.num = nums[j]
              /\ fd.size = sizes[j]
              /\ \A k \in 1..Len(nums) : sizes[k] <= sizes[j]
              /\ \A k \in 1..(j - 1) : sizes[k] < sizes[j]

\* C2: with /proc unchanged since the scan, a candidate whose descriptor list
\* was empty has no active file, and the active file of any other candidate,
\* lists of zero-size files included, is an entry of its list, of maximum size,
\* the first such.
C2_ActiveFileIsFirstBiggest ==
    (events = MaxEvents /\ pc # "find") =>
        /\ \A i \in 1..Len(results) : FirstBiggest(proc, results[i].pid, results[i].fd)
        /\ \A j \in 1..Len(pidinfos) :
              (j < pid_i /\ ListedFds(proc, pidinfos[j]) = <<>>)
                  => \A i \in 1..Len(results) : results[i].pid # pidinfos[j]

\* the last n entries of h
LastN(h, n) == SubSeq(h, Len(h) - Min(n, Len(h)) + 1, Len(h))

\* C3: every accepted observation is appended to its key's history and, beyond
\* three entries, the oldest is dropped: the history is the three most recent
\* observations in arrival order.
C3_HistoryKeepsMostRecent ==
    [][(pc = "report" /\ res_i' = res_i + 1) =>
          \A k \in DOMAIN throughputs' :
              throughputs'[k] # Hist(throughputs, k) =>
                  throughputs'[k] =
                      LastN(Append(Hist(throughputs, k), throughputs'[k][Len(throughputs'[k])]),
                            THROUGHPUT_SAMPLE_SIZE)]_vars

\* the result being reported and its re-read
Reporting == pc = "report" /\ res_i <= Len(results) /\ IsFdInfo(results[res_i].fd)

Resample == get_fdinfo(proc, results[res_i].pid.pid, results[res_i].fd.num, now)

\* the descriptor of the result being reported now points at another path
Mismatch ==
    /\ Reporting
    /\ config.throughput
    /\ ~Raised(Resample)
    /\ Resample.name # results[res_i].fd.name

\* C4: in throughput mode, when the re-read descriptor points at another path
\* than the first sample did, the report step leaves the rate histories as
\* they are, prints no rate, and prints the progress line of the first sample.
C4_MismatchDiscarded ==
    [][(Mismatch /\ ProgramStep) =>
          LET first == results[res_i].fd
              line == out'[Len(out) + 1]
          IN  /\ pc' = "report" /\ res_i' = res_i + 1
              /\ throughputs' = throughputs
              /\ Len(out') = Len(out) + 2
              /\ SubSeq(out', 1, Len(out)) = out
              /\ line.k = "progress"
              /\ line.pid = results[res_i].pid.pid
              /\ line.path = first.name
              /\ line.pcnt = Fmt1f(ProgressPcnt(first))
              /\ line.pos = format_size(Rat(first.pos, 1))
              /\ line.size = format_size(Rat(first.size, 1))
              /\ out'[Len(out) + 2] = NewLine]_vars

\* a result was reported whose descriptor now points at another path: its
\* progress line is on the terminal and no history exists
C4_Witness ==
    /\ config.throughput
    /\ pc = "report"
    /\ res_i = 2
    /\ IsFdInfo(results[1].fd)
    /\ \E f \in FdOf(proc, results[1].pid.pid, results[1].fd.num) : f.path # results[1].fd.name
    /\ throughputs = <<>>
    /\ \E i \in 1..Len(out) : out[i].k = "progress" /\ out[i].path = results[1].fd.name

\* C5: when no time or negative time has passed between the two samples of a
\* key, the report step does not fail, prints rate 0 and turns nothing into a
\* rate.
C5_NoRateWithoutElapsedTime ==
    [][(/\ Reporting /\ config.throughput /\ ~Raised(Resample)
        /\ SameFile(Resample, results[res_i].fd)
        /\ Resample.tv - results[res_i].fd.tv <= 0
        /\ ProgramStep) =>
          /\ pc' = "report" /\ res_i' = res_i + 1
          /\ err' = "none"
          /\ throughputs' = throughputs
          /\ out' = out \o <<ProgressLine(results[res_i].pid, Resample),
                             RateLine(Rat(0, 1)), NewLine>>]_vars

\* C6: a process or descriptor that vanishes during a cycle never makes the
\* cycle end with an error.
C6_VanishingNeverAborts == ~(pc = "raised" /\ err = "OSError")

\* the FdInfo a report step prints
Reported ==
    IF config.throughput /\ SameFile(Resample, results[res_i].fd)
    THEN Resample ELSE results[res_i].fd

\* C7: the percentage printed for an active file is 100 * position / size when
\* both are positive, and 0.0 otherwise.
C7_PercentageIsHundredTimesRatio ==
    [][(pc = "report" /\ pc' = "report" /\ res_i' = res_i + 1) =>
          out'[Len(out) + 1].pcnt =
              IF Reported.pos > 0 /\ Reported.size > 0
              THEN Fmt1f(Rat(100 * Reported.pos, Reported.size))
              ELSE 0]_vars

\* C8: Process() refuses a pid that is not an int with TypeError and an int
\* that is not positive with AssertionError; only a valid pid makes a Process.
C8_InvalidPidRejected ==
    made # NoValue =>
        IF arg.type # "int" THEN Raised(made) /\ made.raised = "TypeError"
        ELSE IF arg.v <= 0 THEN Raised(made) /\ made.raised = "AssertionError"
        ELSE made = Process(arg)

\* C9: when no process matched any configured name, the cycle returns 0 with
\* the histories untouched, having printed the one "No command currently
\* running" line, or no line at all if quiet.
C9_NoMatchOneLineOrNone ==
    [][(pc = "find" /\ name_i > Len(config.proc_names) /\ pidinfos = <<>> /\ ProgramStep) =>
          /\ pc' = "returned"
          /\ ret' = Int0
          /\ results' = <<>>
          /\ throughputs' = throughputs
          /\ config.quiet => out' = out
          /\ ~config.quiet =>
                /\ out'[Len(out')] = NoCommandLine(config.proc_names)
                /\ Len(out') = IF Curses(config) THEN 1 ELSE Len(out) + 1
                /\ SubSeq(out', 1, Len(out') - 1) = SubSeq(out, 1, Len(out') - 1)]_vars

\* nothing matched and the one line is on the terminal
C9_Witness ==
    /\ pc = "returned"
    /\ ret = Int0
    /\ ~config.quiet
    /\ out = <<NoCommandLine(config.proc_names)>>
    /\ \E p \in DOMAIN proc : proc[p].alive

\* nothing matched, quiet, and nothing is on the terminal
C9_WitnessQuiet == pc = "returned" /\ ret = Int0 /\ config.quiet /\ out = <<>>

\* the inactive lines on the terminal
InactiveLines == {i \in 1..Len(out) : out[i].k = "inactive"}

\* C10: a candidate found without descriptors gets exactly one inactive line,
\* no entry in results and no rate history under any of its descriptors.
C10_InactiveIsLeftOut ==
    /\ \A i \in InactiveLines :
          /\ \A j \in InactiveLines : out[j].pid = out[i].pid => j = i
          /\ \A r \in 1..Len(results) : results[r].pid.pid # out[i].pid
          /\ \A k \in DOMAIN throughputs : k[1] # out[i].pid
    /\ pc \in {"scan", "fdinfo"} =>
          \A j \in 1..Len(pidinfos) :
              (j < pid_i /\ \A r \in 1..Len(results) : results[r].pid # pidinfos[j])
                  => \E i \in InactiveLines : out[i] = InactiveLine(pidinfos[j])

\* an inactive line was printed for one candidate while another was reported
\* with its rate
C10_Witness ==
    /\ InactiveLines # {}
    /\ DOMAIN throughputs # {}
    /\ pc = "returned"

\* the mean of the n elements of s from the i-th on
WindowMean(s, i, n) ==
    LET w == RatSum(SubSeq(s, i, i + n - 1)) IN Rat(w[1], w[2] * n)

\* C11: moving_average(seq, n) over a sequence of length L yields exactly
\* max(0, L - n + 1) values, the i-th being the sum of the elements i..i+n-1
\* divided by n; the window-3 average of [40,30,50,46,39,44] is
\* [40.0, 42.0, 45.0, 43.0], and a sequence shorter than n yields nothing.
C11_MovingAverageIsWindowedMean ==
    (made # NoValue /\ arg.type = "moving_average") =>
        LET L == Len(arg.iterable)
            avg == made.list
        IN  /\ Len(avg) = (IF L - arg.n + 1 > 0 THEN L - arg.n + 1 ELSE 0)
            /\ \A i \in 1..Len(avg) : avg[i] = WindowMean(arg.iterable, i, arg.n)
            /\ (arg.iterable = Floats(DocSequence) /\ arg.n = 3)
                  => avg = Floats(<<40, 42, 45, 43>>)

\* a window of 3 has slid twice or more over a sequence of different numbers
C11_Witness ==
    /\ made # NoValue /\ arg.type = "moving_average"
    /\ arg.n = 3
    /\ Len(made.list) >= 2
    /\ made.list[1] # made.list[2]

\* a report step that prints a rate: progress line, rate, newline
RateReported ==
    /\ pc = "report" /\ pc' = "report" /\ res_i' = res_i + 1
    /\ Len(out') = Len(out) + 3

\* C12: the rate a report step prints for a key is 0 while the key's history
\* holds fewer than 3 observations, and with 3 it is the one window-3 mean of
\* the history; the history never yields more than one average.
C12_RateIsZeroOrWindowMean ==
    [][RateReported =>
          LET tkey == <<results[res_i].pid.pid, results[res_i].fd.num>>
              h == throughputs'[tkey]
          IN  /\ Len(h) <= THROUGHPUT_SAMPLE_SIZE
              /\ out'[Len(out) + 2] =
                    RateLine(IF Len(h) < THROUGHPUT_SAMPLE_SIZE
                             THEN Rat(0, 1)
                             ELSE WindowMean(h, 1, THROUGHPUT_SAMPLE_SIZE))]_vars

\* a history of three observations, and a rate other than 0 on the terminal
C12_Witness ==
    /\ pc = "returned"
    /\ \E k \in DOMAIN throughputs : Len(throughputs[k]) = THROUGHPUT_SAMPLE_SIZE
    /\ \E i \in 1..Len(out) : out[i].k = "rate" /\ out[i].rate # format_size(Rat(0, 1))

\* the descriptor numbers of the openfiles in l
Numbers(l) == [i \in 1..Len(l) |-> l[i].fd]

\* C13: open_files never raises; it returns an empty list when the descriptor
\* directory cannot be listed, and with /proc unchanged during the call it
\* returns every regular-file and block-device descriptor, in listing order.
C13_OpenFilesNeverRaises ==
    (arg.type = "open_files" /\ of_pc = "done") =>
        /\ ~Raised(made)
        /\ events = MaxEvents =>
              Numbers(made.list) = find_fd_for_pid(proc, arg.pid, None)

\* C14: in monitor mode (-m without -M) main enters another cycle after a cycle
\* that found a matching process, inactive ones included, and leaves the loop
\* only after a cycle that found none.
C14_MonitorLoopsWhileMatching ==
    [][(pc = "returned" /\ config.monitor /\ ~config.monitor_continuous /\ ProgramStep) =>
          (pc' = "exit" <=> pidinfos = <<>>)]_vars

\* SIGINT is delivered
Sigint == pc # "exit" /\ err' # err /\ err' \in {"SystemExit", "KeyboardInterrupt"}

\* C15: once the window is initialised, a SIGINT at any point, before the
\* handler is installed included, ends the process with the terminal torn down.
C15_InterruptTearsDown ==
    [][(mainwin = "open" /\ Sigint) => (pc' = "exit" /\ mainwin' = "ended")]_vars

\* C16: in every state, whatever the number of cycles run, the rate history of
\* every (pid, descriptor) key holds at most 3 entries.
C16_HistoryAtMostThree ==
    \A k \in DOMAIN throughputs : Len(throughputs[k]) <= THROUGHPUT_SAMPLE_SIZE

\* every turn of the loop has added an observation, the last one to a history
\* that was full
C16_Witness ==
    /\ rounds = 0
    /\ events >= MaxLoopEvents - 1
    /\ pc = "returned"
    /\ \E k \in DOMAIN throughputs :
          /\ Len(throughputs[k]) = THROUGHPUT_SAMPLE_SIZE
          /\ throughputs[k][THROUGHPUT_SAMPLE_SIZE] # Rat(0, 1)

\* C17: find_pids_by_binary_name(name, max_pids=k) returns, for every k >= 0,
\* at most k entries, each a process whose executable is name.
C17_LimitRespected ==
    (arg.type = "find_pids_by_binary_name" /\ made # NoValue) =>
        /\ Len(made.list) <= arg.max_pids
        /\ \A i \in 1..Len(made.list) :
              /\ ExeReadable(proc, made.list[i].pid)
              /\ proc[made.list[i].pid].exe = arg.bin_name
              /\ made.list[i].name = arg.bin_name

====
